---- MODULE Spec2Model ----
(***************************************************************************)
(* A model of apprise/plugins/NotifySNS.py: construction of a NotifySNS    *)
(* notifier (argument validation and recipient classification), the URL    *)
(* parser that feeds it, and the dispatch loop of notify() with _post(),   *)
(* the reference time of aws_prepare_request() and aws_response_to_dict(). *)
(*                                                                         *)
(* Python strings are sequences of one-character strings, so that the      *)
(* regular expressions of the module are computed character by character.  *)
(***************************************************************************)
EXTENDS Integers, Sequences, FiniteSets, TLC

VARIABLES
    pc,                     \* position of the program
    url,                    \* parse_url: the results of NotifyBase.parse_url
    args,                   \* __init__: the arguments of the constructor
    aws_access_key_id,      \* self.aws_access_key_id
    aws_secret_access_key,  \* self.aws_secret_access_key
    aws_region_name,        \* self.aws_region_name
    notify_url,             \* self.notify_url
    self_phone,             \* self.phone
    self_topics,            \* self.topics
    recipients,             \* __init__: the local list the loop iterates
    idx,                    \* __init__: position of the loop in recipients
    warnings,               \* the logger.warning calls of __init__, in order
    phone,                  \* notify: local copy of self.phone (work queue)
    topics,                 \* notify: local copy of self.topics (work queue)
    error_count,            \* notify: error_count
    topic,                  \* notify: the topic popped by the current iteration
    topic_arn,              \* notify: topic_arn of the current iteration
    events,                 \* requests.post calls and throttle() calls, in order
    last,                   \* the last requests.post outcome and what _post did with it
    clock,                  \* the instant the last request was prepared at
    headers,                \* aws_prepare_request: the headers of the last request
    result                  \* the value notify returned

vars == <<pc, url, args, aws_access_key_id, aws_secret_access_key,
          aws_region_name, notify_url, self_phone, self_topics, recipients,
          idx, warnings, phone, topics, error_count, topic, topic_arn,
          events, last, clock, headers, result>>

ctor_vars == <<aws_access_key_id, aws_secret_access_key, aws_region_name,
               notify_url, self_phone, self_topics, recipients, idx, warnings>>

\* what the constructor leaves besides the two lists
setup_vars == <<aws_access_key_id, aws_secret_access_key, aws_region_name,
                notify_url, recipients, idx, warnings>>

notify_vars == <<phone, topics, error_count, topic, topic_arn, events, last,
                 clock, headers, result>>

-----------------------------------------------------------------------------
(* Python values *)

\* Python's None: a value that is no string (strings hold one-character items)
None == <<"None">>

\* `not x` for x a string, a list or None
Falsy(x) == x = None \/ x = <<>>

-----------------------------------------------------------------------------
(* Character classes of the regular expressions *)

Digits == {"0", "1", "2", "3", "4", "5", "6", "7", "8", "9"}

LowerLetters == {"a", "b", "c", "d", "e", "f", "g", "h", "i", "j", "k", "l", "m",
                 "n", "o", "p", "q", "r", "s", "t", "u", "v", "w", "x", "y", "z"}

UpperLetters == {"A", "B", "C", "D", "E", "F", "G", "H", "I", "J", "K", "L", "M",
                 "N", "O", "P", "Q", "R", "S", "T", "U", "V", "W", "X", "Y", "Z"}

Letters == LowerLetters \cup UpperLetters

\* \s
Whitespace == {" ", "\t", "\n", "\r", "\f"}

\* [0-9\s)(+-] of IS_PHONE_NO
PhoneChars == Digits \cup Whitespace \cup {")", "(", "+", "-"}

\* [A-Za-z0-9_-] of IS_TOPIC
TopicChars == Letters \cup Digits \cup {"_", "-"}

\* [ \t\r\n,\\/] of LIST_DELIM
DelimChars == {" ", "\t", "\r", "\n", ",", "\\", "/"}

AllIn(s, C) == \A j \in 1..Len(s) : s[j] \in C

\* length of the longest prefix of s made of characters of C (a greedy C*)
PrefixLen(s, C) ==
    CHOOSE k \in 0..Len(s) :
        /\ \A j \in 1..k : s[j] \in C
        /\ (k = Len(s) \/ s[k + 1] \notin C)

\* length of the longest suffix of s made of characters of C
SuffixLen(s, C) ==
    CHOOSE k \in 0..Len(s) :
        /\ \A j \in (Len(s) - k + 1)..Len(s) : s[j] \in C
        /\ (k = Len(s) \/ s[Len(s) - k] \notin C)

\* str.lower() on one character
LowerChar(c) ==
    CASE c = "A" -> "a" [] c = "B" -> "b" [] c = "C" -> "c" [] c = "D" -> "d"
      [] c = "E" -> "e" [] c = "F" -> "f" [] c = "G" -> "g" [] c = "H" -> "h"
      [] c = "I" -> "i" [] c = "J" -> "j" [] c = "K" -> "k" [] c = "L" -> "l"
      [] c = "M" -> "m" [] c = "N" -> "n" [] c = "O" -> "o" [] c = "P" -> "p"
      [] c = "Q" -> "q" [] c = "R" -> "r" [] c = "S" -> "s" [] c = "T" -> "t"
      [] c = "U" -> "u" [] c = "V" -> "v" [] c = "W" -> "w" [] c = "X" -> "x"
      [] c = "Y" -> "y" [] c = "Z" -> "z" [] OTHER -> c

\* str.lower()
Lower(s) == [j \in 1..Len(s) |-> LowerChar(s[j])]

-----------------------------------------------------------------------------
(* IS_PHONE_NO = ^\+?(?P<phone>[0-9\s)(+-]+)\s*$ *)

\* IS_PHONE_NO.match(s) is not None.  The class of the group holds '+' and
\* \s, so the optional '+' and the trailing \s* never decide the match.
IS_PHONE_NO(s) == Len(s) > 0 /\ AllIn(s, PhoneChars)

\* result.group('phone') of a match: \+? is greedy and gives the '+' back
\* only when nothing would be left for the group
PhoneGroup(s) == IF s[1] = "+" /\ Len(s) > 1 THEN Tail(s) ELSE s

\* ''.join(re.findall(r'\d+', group))
DigitsOf(s) == SelectSeq(s, LAMBDA c : c \in Digits)

(* IS_TOPIC = ^#?(?P<name>[A-Za-z0-9_-]+)\s*$ *)

TopicBody(s) == IF Len(s) > 0 /\ s[1] = "#" THEN Tail(s) ELSE s

\* result.group('name') of a match: the greedy run of name characters
TopicName(s) == SubSeq(TopicBody(s), 1, PrefixLen(TopicBody(s), TopicChars))

\* IS_TOPIC.match(s) is not None
IS_TOPIC(s) ==
    LET b == TopicBody(s)
        k == PrefixLen(b, TopicChars)
    IN  k > 0 /\ AllIn(SubSeq(b, k + 1, Len(b)), Whitespace)

(* IS_REGION = ^\s*(?P<country>[a-z]{2})-(?P<area>[a-z]+)-(?P<no>[0-9]+)\s*$, re.I *)

\* s without the leading and trailing \s*
StripWs(s) ==
    LET a == PrefixLen(s, Whitespace)
        b == SuffixLen(s, Whitespace)
    IN  IF a = Len(s) THEN <<>> ELSE SubSeq(s, a + 1, Len(s) - b)

\* the groups of IS_REGION on the stripped string t, each the greedy run the
\* pattern takes; the three classes exclude '-', so no other split can match
RegionCountry(s) == SubSeq(StripWs(s), 1, 2)

RegionArea(s) ==
    LET t == StripWs(s)
        r == SubSeq(t, 4, Len(t))
    IN  SubSeq(r, 1, PrefixLen(r, Letters))

RegionNo(s) ==
    LET t == StripWs(s)
        r == SubSeq(t, 4, Len(t))
        k == PrefixLen(r, Letters)
    IN  SubSeq(r, k + 2, Len(r))

\* IS_REGION.match(s) is not None
IS_REGION(s) ==
    LET t == StripWs(s)
        r == SubSeq(t, 4, Len(t))
        k == PrefixLen(r, Letters)
    IN  /\ Len(t) >= 3
        /\ t[1] \in Letters /\ t[2] \in Letters /\ t[3] = "-"
        /\ k > 0
        /\ Len(r) > k + 1
        /\ r[k + 1] = "-"
        /\ AllIn(SubSeq(r, k + 2, Len(r)), Digits)

(* LIST_DELIM.split(recipients) filtered by bool *)

\* length of the first token of s: the run of characters that are no delimiter
TokenLen(s) ==
    CHOOSE k \in 0..Len(s) :
        /\ \A j \in 1..k : s[j] \notin DelimChars
        /\ (k = Len(s) \/ s[k + 1] \in DelimChars)

RECURSIVE SplitList(_)
SplitList(s) ==
    LET d == PrefixLen(s, DelimChars)
        r == SubSeq(s, d + 1, Len(s))
        k == TokenLen(r)
    IN  IF r = <<>> THEN <<>>
        ELSE <<SubSeq(r, 1, k)>> \o SplitList(SubSeq(r, k + 1, Len(r)))

-----------------------------------------------------------------------------
(* NotifySNS.parse_url *)

NoResults == [results |-> FALSE, host |-> <<>>, entries |-> <<>>]

NoArgs ==
    [access_key_id |-> None, secret_access_key |-> None, region_name |-> None,
     recipients |-> [type |-> "none", val |-> <<>>]]

\* '/'.join(parts)
RECURSIVE JoinSlash(_)
JoinSlash(parts) ==
    IF parts = <<>> THEN <<>>
    ELSE IF Len(parts) = 1 THEN parts[1]
    ELSE parts[1] \o <<"/">> \o JoinSlash(Tail(parts))

\* "{country}-{area}-{no}" with country and area lowered
FormatRegion(entry) ==
    Lower(RegionCountry(entry)) \o <<"-">> \o Lower(RegionArea(entry))
        \o <<"-">> \o RegionNo(entry)

\* the index of the first entry that is a region, 0 when there is none
FirstRegion(entries) ==
    IF \E j \in 1..Len(entries) : IS_REGION(entries[j])
    THEN CHOOSE j \in 1..Len(entries) :
             /\ IS_REGION(entries[j])
             /\ \A h \in 1..(j - 1) : ~IS_REGION(entries[h])
    ELSE 0

\* parse_url: the access key is the host, the secret the path entries before
\* the first region joined by '/', the recipients the entries after it.
\* Without a region the secret and the region stay None and every entry is a
\* recipient.  The entries hold no %-escape, so unquote leaves them as they are.
ParseUrl ==
    /\ pc = "parse_url"
    /\ IF ~url.results
       THEN /\ pc' = "no_results"
            /\ UNCHANGED args
       ELSE LET entries == url.entries
                r == FirstRegion(entries)
            IN  /\ args' = [access_key_id |-> url.host,
                            secret_access_key |->
                                IF r = 0 THEN None
                                ELSE JoinSlash(SubSeq(entries, 1, r - 1)),
                            region_name |->
                                IF r = 0 THEN None ELSE FormatRegion(entries[r]),
                            recipients |->
                                [type |-> "list",
                                 val |-> SubSeq(entries, r + 1, Len(entries))]]
                /\ pc' = "init"
    /\ UNCHANGED url
    /\ UNCHANGED ctor_vars
    /\ UNCHANGED notify_vars

-----------------------------------------------------------------------------
(* NotifySNS.__init__ *)

\* the three checks that raise TypeError
ArgumentsValid(a) ==
    /\ ~Falsy(a.access_key_id)
    /\ ~Falsy(a.secret_access_key)
    /\ a.region_name # None
    /\ a.region_name # <<>>
    /\ IS_REGION(a.region_name)

\* self.aws_region_name = region_name
StoredRegion(region_name) == region_name

\* 'https://sns.{}.amazonaws.com/'.format(self.aws_region_name)
NotifyUrl(region) == <<"https://sns.">> \o region \o <<".amazonaws.com/">>

\* the list the loop iterates: None and any other type give [], a string is split
RecipientList(r) ==
    CASE r.type = "none" -> <<>>
      [] r.type = "str" -> SplitList(r.val)
      [] r.type = "list" -> r.val
      [] OTHER -> <<>>

Construct ==
    /\ pc = "init"
    /\ IF ~ArgumentsValid(args)
       THEN /\ pc' = "type_error"
            /\ UNCHANGED ctor_vars
       ELSE /\ self_topics' = <<>>
            /\ self_phone' = <<>>
            /\ aws_access_key_id' = args.access_key_id
            /\ aws_secret_access_key' = args.secret_access_key
            /\ aws_region_name' = StoredRegion(args.region_name)
            /\ notify_url' = NotifyUrl(StoredRegion(args.region_name))
            /\ recipients' = RecipientList(args.recipients)
            /\ idx' = 1
            /\ pc' = "classify"
            /\ UNCHANGED warnings
    /\ UNCHANGED <<url, args>>
    /\ UNCHANGED notify_vars

\* len(result) < 11 or len(result) > 14 is false
ValidDigitCount(digits) == ~(Len(digits) < 11 \/ Len(digits) > 14)

\* a variant of Classify: without the `continue` after the first warning, a
\* phone-shaped recipient out of the digit range goes on to the topic test
ClassifyThenTopic(recipient) ==
    IF IS_PHONE_NO(recipient) /\ ValidDigitCount(DigitsOf(PhoneGroup(recipient)))
    THEN "phone"
    ELSE IF IS_TOPIC(recipient) THEN "topic"
    ELSE IF IS_PHONE_NO(recipient) THEN "drop_phone" ELSE "drop"

\* what one round of the loop does with a recipient: "phone", "topic",
\* "drop_phone" (the first warning and continue) or "drop" (the last warning)
Classify(recipient) ==
    IF IS_PHONE_NO(recipient)
    THEN IF ValidDigitCount(DigitsOf(PhoneGroup(recipient)))
         THEN "phone" ELSE "drop_phone"
    ELSE IF IS_TOPIC(recipient) THEN "topic" ELSE "drop"

\* '+{}'.format(result)
StoredPhone(recipient) == <<"+">> \o DigitsOf(PhoneGroup(recipient))

\* a variant of AddPhone: insert(0, ...)
AddPhoneFirst(list, p) == <<p>> \o list

\* self.phone.append(...)
AddPhone(list, p) == Append(list, p)

\* self.topics.append(...)
AddTopic(list, t) == Append(list, t)

\* one round of `for recipient in recipients`
ClassifyStep ==
    /\ pc = "classify"
    /\ idx <= Len(recipients)
    /\ LET recipient == recipients[idx]
           c == Classify(recipient)
       IN  /\ self_phone' = IF c = "phone"
                            THEN AddPhone(self_phone, StoredPhone(recipient))
                            ELSE self_phone
           /\ self_topics' = IF c = "topic"
                             THEN AddTopic(self_topics, TopicName(recipient))
                             ELSE self_topics
           /\ warnings' =
                  CASE c = "drop_phone" ->
                           Append(warnings, [what |-> "invalid phone #",
                                             recipient |-> recipient])
                    [] c = "drop" ->
                           Append(warnings, [what |-> "invalid phone/topic",
                                             recipient |-> recipient])
                    [] OTHER -> warnings
    /\ idx' = idx + 1
    /\ UNCHANGED <<pc, url, args, aws_access_key_id, aws_secret_access_key,
                   aws_region_name, notify_url, recipients>>
    /\ UNCHANGED notify_vars

\* the end of __init__: the warning that nothing is left to notify; the
\* arguments and the locals of the constructor are gone when it returns
ClassifyEnd ==
    /\ pc = "classify"
    /\ idx > Len(recipients)
    /\ warnings' = IF Len(self_phone) = 0 /\ Len(self_topics) = 0
                   THEN Append(warnings, [what |-> "no valid recipient",
                                          recipient |-> None])
                   ELSE warnings
    /\ pc' = "ready"
    /\ args' = NoArgs
    /\ url' = NoResults
    /\ recipients' = <<>>
    /\ idx' = 0
    /\ UNCHANGED <<aws_access_key_id, aws_secret_access_key, aws_region_name,
                   notify_url, self_phone, self_topics>>
    /\ UNCHANGED notify_vars

-----------------------------------------------------------------------------
(* NotifySNS.aws_response_to_dict *)

\* A response body is None (no response), a text that is no XML, or an XML
\* document: a tree of elements [tag, text, kids], the text None when the
\* element has none.  Tags are those left after the removal of the first
\* xmlns="..." declaration.
NoElement == [tag |-> None, text |-> None, kids |-> <<>>]

BodyNone == [kind |-> "none", root |-> NoElement]

BodyNotXml == [kind |-> "text", root |-> NoElement]

Leaf(tag, text) == [tag |-> <<tag>>, text |-> text, kids |-> <<>>]

Elem(tag, kids) == [tag |-> <<tag>>, text |-> None, kids |-> kids]

Xml(root) == [kind |-> "xml", root |-> root]

\* aws_keep_map
KeepTags == {<<"RequestId">>, <<"TopicArn">>, <<"MessageId">>, <<"Type">>,
             <<"Code">>, <<"Message">>}

KeepKey(tag) ==
    CASE tag = <<"RequestId">> -> "request_id"
      [] tag = <<"TopicArn">> -> "topic_arn"
      [] tag = <<"MessageId">> -> "message_id"
      [] tag = <<"Type">> -> "error_type"
      [] tag = <<"Code">> -> "error_code"
      [] tag = <<"Message">> -> "error_message"

\* response[key] = value
SetKey(response, key, value) ==
    [k \in DOMAIN response \cup {key} |-> IF k = key THEN value ELSE response[k]]

\* response.get(key)
GetKey(response, key) ==
    IF key \in DOMAIN response THEN response[key] ELSE None

\* (root.text).strip() raises AttributeError on an element without text, and
\* only ElementTree.ParseError and TypeError are caught
RECURSIVE XmlIterRaises(_)
XmlIterRaises(node) ==
    IF Len(node.kids) > 0
    THEN \E j \in 1..Len(node.kids) : XmlIterRaises(node.kids[j])
    ELSE node.tag \in KeepTags /\ node.text = None

\* _xml_iter, on a tree where it does not raise: depth first, a later leaf
\* overwriting an earlier one of the same tag
RECURSIVE XmlIter(_, _)
RECURSIVE XmlIterKids(_, _)
XmlIter(node, response) ==
    IF Len(node.kids) > 0 THEN XmlIterKids(node.kids, response)
    ELSE IF node.tag \in KeepTags
         THEN SetKey(response, KeepKey(node.tag), StripWs(node.text))
         ELSE response

XmlIterKids(kids, response) ==
    IF kids = <<>> THEN response
    ELSE XmlIterKids(Tail(kids), XmlIter(Head(kids), response))

DefaultResponse == [type |-> None, request_id |-> None]

\* whether aws_response_to_dict(body) raises
ResponseRaises(body) == body.kind = "xml" /\ XmlIterRaises(body.root)

\* aws_response_to_dict(body) when it returns: None raises TypeError in
\* re.sub and a text that is no XML raises ParseError, both caught
AwsResponseToDict(body) ==
    IF body.kind # "xml" THEN DefaultResponse
    ELSE XmlIter(body.root, [DefaultResponse EXCEPT !.type = body.root.tag])

-----------------------------------------------------------------------------
(* NotifySNS.aws_prepare_request and NotifySNS.aws_auth_signature *)

\* An instant is a whole number of seconds since the midnight before the
\* program started: the microseconds of utcnow() show in neither format.

\* the seconds of a day of the model
SecondsPerDay == 2

\* the last instant a request is prepared at
MaxClock == 2

\* reference.strftime('%Y%m%d')
DateStamp(reference) == reference \div SecondsPerDay

\* reference.strftime('%Y%m%dT%H%M%SZ'): the date and the time of the day
AmzDate(reference) ==
    <<reference \div SecondsPerDay, reference % SecondsPerDay>>

\* a variant of Reference: the instant taken once, when the program
\* started, and kept for every request
ReferenceKept(given, now) == 0

\* reference = datetime.utcnow(), whatever the `reference` argument was
Reference(given, now) == now

\* aws_auth_signature(to_sign, reference): the date the first key of the
\* chain is made of
KeyDate(reference) == DateStamp(reference)

NoHeaders ==
    [made |-> FALSE, reference |-> 0, x_amz_date |-> AmzDate(0),
     scope_date |-> 0, key_date |-> 0]

\* the headers of a request prepared at the instant now, called with the
\* `reference` argument given: what they hold of the reference time
AwsPrepareRequest(given, now) ==
    LET reference == Reference(given, now)
    IN  [made |-> TRUE,
         reference |-> reference,
         x_amz_date |-> AmzDate(reference),
         scope_date |-> DateStamp(reference),
         key_date |-> KeyDate(reference)]

-----------------------------------------------------------------------------
(* NotifySNS._post *)

\* a variant of StatusOk: every 2xx status taken for a success
StatusAny2xx(status_code) == status_code \in 200..299

\* r.status_code != requests.codes.ok is false
StatusOk(status_code) == status_code = 200

\* _post on the outcome o of requests.post: the pair (result, response) it
\* returns, or the exception of aws_response_to_dict leaving it.
\* A RequestException gives (False, aws_response_to_dict(None)).
Post(o) ==
    IF o.exc
    THEN [raised |-> FALSE, ok |-> FALSE, response |-> AwsResponseToDict(BodyNone)]
    ELSE IF ResponseRaises(o.text)
    THEN [raised |-> TRUE, ok |-> FALSE, response |-> DefaultResponse]
    ELSE [raised |-> FALSE, ok |-> StatusOk(o.status_code),
          response |-> AwsResponseToDict(o.text)]

-----------------------------------------------------------------------------
(* The outcomes of requests.post *)

ArnA == <<"a", "r", "n", ":", "a">>

ArnB == <<"a", "r", "n", ":", "b">>

RequestIdText == <<"6", "0", "4", "b">>

BodyCreateTopic(arn_text) ==
    Xml(Elem("CreateTopicResponse",
             <<Elem("CreateTopicResult", <<Leaf("TopicArn", arn_text)>>),
               Elem("ResponseMetadata", <<Leaf("RequestId", RequestIdText)>>)>>))

BodyPublish ==
    Xml(Elem("PublishResponse",
             <<Elem("PublishResult", <<Leaf("MessageId", <<"m", "1">>)>>),
               Elem("ResponseMetadata", <<Leaf("RequestId", RequestIdText)>>)>>))

\* <ErrorResponse><Error><Message/></Error></ErrorResponse>
BodyEmptyLeaf ==
    Xml(Elem("ErrorResponse", <<Elem("Error", <<Leaf("Message", None)>>)>>))

Bodies ==
    {BodyNotXml, BodyPublish, BodyEmptyLeaf,
     BodyCreateTopic(<<"\n", " ">> \o ArnA \o <<"\n">>),
     BodyCreateTopic(ArnB),
     BodyCreateTopic(<<" ">>)}

StatusCodes == {200, 204, 500}

\* requests.post raised a RequestException, or returned a status and a text
Outcomes ==
    {[exc |-> TRUE, status_code |-> 0, text |-> BodyNone]}
        \cup [exc : {FALSE}, status_code : StatusCodes, text : Bodies]

-----------------------------------------------------------------------------
(* NotifySNS.notify *)

Throttle == [ev |-> "throttle"]

\* the last call: what requests.post did and what _post did with it
Last(o, r) ==
    [exc |-> o.exc, status_code |-> o.status_code, ok |-> r.ok, raised |-> r.raised]

\* one requests.post call: the payload, and what _post returned to notify
Call(action, field, value, to, r) ==
    [ev |-> "post", action |-> action, field |-> field, value |-> value,
     to |-> to, ok |-> r.ok, raised |-> r.raised,
     arn |-> IF action = "CreateTopic" /\ r.ok /\ ~r.raised
             THEN GetKey(r.response, "topic_arn") ELSE None]

NoLast == [exc |-> FALSE, status_code |-> 0, ok |-> FALSE, raised |-> FALSE]

\* a variant of Pop: pop() takes the last item
PopLast(queue) ==
    [item |-> queue[Len(queue)], rest |-> SubSeq(queue, 1, Len(queue) - 1)]

\* phone.pop(0), topics.pop(0)
Pop(queue) == [item |-> Head(queue), rest |-> Tail(queue)]

\* a variant of Stored: `phone = self.phone`, the queue and the stored list
\* being one object
StoredAliased(stored, queue) == queue

\* self.phone (self.topics) after a pop(0) of the queue, which list() made
\* a copy of
Stored(stored, queue) == stored

\* a variant of PhoneThrottle: the throttle made after the last phone too
PhoneThrottleAlways(rest) == TRUE

\* `if len(phone) > 0` after a phone was sent
PhoneThrottle(rest) == Len(rest) > 0

\* `if len(topics) > 0` after a topic was published
TopicThrottle(rest) == Len(rest) > 0

\* `if not topic_arn` is false
HasArn(arn) == ~Falsy(arn)

\* error_count == 0
NotifyResult(count) == count = 0

\* the start of a notify call, the first or a later one, on the constructed
\* notifier: the counter and the copies of the two lists.  What is recorded
\* of a call (events, last, headers, result) starts anew with it; the clock
\* goes on.
NotifyStart ==
    /\ pc \in {"ready", "returned", "raised"}
    /\ error_count' = 0
    /\ phone' = self_phone
    /\ topics' = self_topics
    /\ topic' = None
    /\ topic_arn' = None
    /\ events' = <<>>
    /\ last' = NoLast
    /\ headers' = NoHeaders
    /\ result' = FALSE
    /\ pc' = "phones"
    /\ UNCHANGED clock
    /\ UNCHANGED <<url, args>>
    /\ UNCHANGED ctor_vars

\* one round of `while len(phone) > 0`
PhonePublish ==
    /\ pc = "phones"
    /\ Len(phone) > 0
    /\ \E now \in clock..MaxClock :
        /\ clock' = now
        /\ headers' = AwsPrepareRequest(None, now)
    /\ \E o \in Outcomes :
        LET no == Pop(phone).item
            rest == Pop(phone).rest
            r == Post(o)
            call == Call("Publish", "PhoneNumber", no, no, r)
        IN  /\ phone' = rest
            /\ last' = Last(o, r)
            /\ IF r.raised
               THEN /\ pc' = "raised"
                    /\ events' = Append(events, call)
                    /\ UNCHANGED error_count
               ELSE /\ error_count' = IF r.ok THEN error_count ELSE error_count + 1
                    /\ events' = IF PhoneThrottle(rest)
                                 THEN events \o <<call, Throttle>>
                                 ELSE Append(events, call)
                    /\ UNCHANGED pc
    /\ self_phone' = Stored(self_phone, Pop(phone).rest)
    /\ UNCHANGED <<topics, topic, topic_arn, result>>
    /\ UNCHANGED <<url, args, self_topics>>
    /\ UNCHANGED setup_vars

\* the end of the phone loop
PhonesDone ==
    /\ pc = "phones"
    /\ Len(phone) = 0
    /\ pc' = "topics"
    /\ UNCHANGED notify_vars
    /\ UNCHANGED <<url, args>>
    /\ UNCHANGED ctor_vars

\* one round of `while len(topics)` up to the Publish: CreateTopic and the
\* two `continue` that end the round without Publish and without throttle
TopicCreate ==
    /\ pc = "topics"
    /\ Len(topics) > 0
    /\ \E now \in clock..MaxClock :
        /\ clock' = now
        /\ headers' = AwsPrepareRequest(None, now)
    /\ \E o \in Outcomes :
        LET t == Pop(topics).item
            rest == Pop(topics).rest
            r == Post(o)
            call == Call("CreateTopic", "Name", t, t, r)
            arn == GetKey(r.response, "topic_arn")
        IN  /\ topics' = rest
            /\ topic' = t
            /\ last' = Last(o, r)
            /\ events' = Append(events, call)
            /\ IF r.raised
               THEN /\ pc' = "raised"
                    /\ UNCHANGED <<error_count, topic_arn>>
               ELSE IF ~r.ok
               THEN /\ error_count' = error_count + 1
                    /\ UNCHANGED <<pc, topic_arn>>
               ELSE /\ topic_arn' = arn
                    /\ IF HasArn(arn)
                       THEN /\ pc' = "publish"
                            /\ UNCHANGED error_count
                       ELSE /\ error_count' = error_count + 1
                            /\ UNCHANGED pc
    /\ self_topics' = Stored(self_topics, Pop(topics).rest)
    /\ UNCHANGED <<phone, result>>
    /\ UNCHANGED <<url, args, self_phone>>
    /\ UNCHANGED setup_vars

\* the rest of the round: Publish to the topic ARN, then the throttle
TopicPublish ==
    /\ pc = "publish"
    /\ \E now \in clock..MaxClock :
        /\ clock' = now
        /\ headers' = AwsPrepareRequest(None, now)
    /\ \E o \in Outcomes :
        LET r == Post(o)
            call == Call("Publish", "TopicArn", topic_arn, topic, r)
        IN  /\ last' = Last(o, r)
            /\ IF r.raised
               THEN /\ pc' = "raised"
                    /\ events' = Append(events, call)
                    /\ UNCHANGED error_count
               ELSE /\ error_count' = IF r.ok THEN error_count ELSE error_count + 1
                    /\ events' = IF TopicThrottle(topics)
                                 THEN events \o <<call, Throttle>>
                                 ELSE Append(events, call)
                    /\ pc' = "topics"
    /\ UNCHANGED <<phone, topics, topic, topic_arn, result>>
    /\ UNCHANGED <<url, args>>
    /\ UNCHANGED ctor_vars

\* the end of the topic loop: return error_count == 0
Return ==
    /\ pc = "topics"
    /\ Len(topics) = 0
    /\ result' = NotifyResult(error_count)
    /\ pc' = "returned"
    /\ UNCHANGED <<phone, topics, error_count, topic, topic_arn, events, last,
                   clock, headers>>
    /\ UNCHANGED <<url, args>>
    /\ UNCHANGED ctor_vars

-----------------------------------------------------------------------------
(* The inputs: what the notifier is constructed from *)

\* the longest list of recipients given to the constructor
MaxRecipients == 2

\* the longest run of digits in a recipient
MaxDigits == 15

\* the longest path of a URL
MaxEntries == 3

\* n digits: 1515...
DigitRun(n) == [j \in 1..n |-> IF j % 2 = 1 THEN "1" ELSE "5"]

\* n digits written as a phone number: (1) 5-15...
DigitsDecorated(n) ==
    <<"(", "1", ")", " ">> \o
        (IF n > 1 THEN <<"5", "-">> \o DigitRun(n - 2) ELSE <<>>)

AccessKey == <<"A", "K">>

SecretKey == <<"s", "/", "K">>

UsEast1 == <<"u", "s", "-", "e", "a", "s", "t", "-", "1">>

RegionPool ==
    {None, <<>>, UsEast1,
     <<"U", "S", "-", "E", "a", "s", "t", "-", "1">>,
     <<"u", "s", "e", "a", "s", "t", "1">>,
     <<" ">> \o UsEast1 \o <<"\n">>,
     <<"c", "n", "-", "n", "o", "r", "t", "h", "-", "1", "2">>,
     <<"u", "-", "e", "a", "s", "t", "-", "1">>,
     <<"u", "s", "a", "-", "w", "e", "s", "t", "-", "2">>,
     <<"u", "s", "-", "e", "a", "s", "t", "-">>,
     <<"u", "s", "-", "e", "4", "s", "t", "-", "1">>,
     <<"u", "s", "-", "-", "1">>,
     <<"u", "s", "-", "e", "a", "s", "t", "-", "1", "a">>}

\* recipients of every shape: digits, plain or decorated, and names, with and
\* without a leading '+' or '#' and a trailing character
RichTokens ==
    LET mids == {DigitRun(n) : n \in 0..MaxDigits}
                    \cup {DigitsDecorated(n) : n \in 1..MaxDigits}
                    \cup {<<"a">>, <<"a", "_", "1">>, <<"1", "a">>, <<"1", "-", "5">>}
        pres == {<<>>, <<"+">>, <<"#">>}
        sufs == {<<>>, <<" ">>, <<"!">>}
    IN  {p \o m \o x : p \in pres, m \in mids, x \in sufs} \ {<<>>}

\* a few recipients, for the lists: two phones, two topics, a digit name
PhoneA == <<"+">> \o DigitRun(11)

PhoneB == DigitsDecorated(14)

TopicA == <<"#", "a">>

TopicB == <<"b", "-", "1">>

ListTokens == {PhoneA, PhoneB, TopicA, TopicB, <<"1", "-", "5">>}

\* three longer lists: phones and topics interleaved; a phone, a topic and
\* a recipient that is neither; the same phone twice and a recipient that
\* has too few digits
MixedLists ==
    {<<TopicA, PhoneA, TopicB, PhoneB>>,
     <<PhoneA, <<"#", "a", "l", "e", "r", "t", "s">>, <<"n", "o", "!">>>>,
     <<PhoneA, PhoneA, <<"1", "-", "5">>>>}

SeqsUpTo(S, n) == UNION {[1..k -> S] : k \in 0..n}

ListArg(l) == [type |-> "list", val |-> l]

\* recipients given as one delimited string
StrArgs ==
    {[type |-> "str", val |-> <<"#", "a", ",", " ">> \o PhoneA \o <<"/", "b", "!">>],
     [type |-> "str", val |-> <<" ", ",">>],
     [type |-> "str", val |-> DigitRun(11) \o <<" ">> \o DigitRun(3)]}

GoodArgs(r) ==
    [access_key_id |-> AccessKey, secret_access_key |-> SecretKey,
     region_name |-> UsEast1, recipients |-> r]

\* the calls NotifySNS(access_key_id, secret_access_key, region_name, recipients)
DirectArgs ==
    {GoodArgs(ListArg(l)) : l \in SeqsUpTo(ListTokens, MaxRecipients)}
        \cup {GoodArgs(ListArg(l)) : l \in MixedLists}
        \cup {GoodArgs(ListArg(<<t>>)) : t \in RichTokens}
        \cup {GoodArgs(r) : r \in StrArgs \cup {[type |-> "none", val |-> <<>>],
                                               [type |-> "other", val |-> <<>>]}}
        \cup [access_key_id : {None, <<>>, AccessKey},
              secret_access_key : {None, <<>>, SecretKey},
              region_name : RegionPool,
              recipients : {ListArg(<<PhoneA, TopicA>>)}]

\* the URLs given to parse_url, as NotifyBase.parse_url returns them: no
\* results, or the host and the entries of the path
UrlEntries ==
    {<<"s">>, <<"K">>, UsEast1,
     <<"U", "S", "-", "W", "e", "s", "t", "-", "2">>,
     <<"u", "s", "e", "a", "s", "t", "1">>, PhoneA}

Urls ==
    {NoResults} \cup [results : {TRUE}, host : {<<>>, AccessKey},
                      entries : SeqsUpTo(UrlEntries, MaxEntries)]

Init ==
    /\ \/ /\ pc = "parse_url"
          /\ url \in Urls
          /\ args = NoArgs
       \/ /\ pc = "init"
          /\ url = NoResults
          /\ args \in DirectArgs
    /\ aws_access_key_id = None
    /\ aws_secret_access_key = None
    /\ aws_region_name = None
    /\ notify_url = None
    /\ self_phone = <<>>
    /\ self_topics = <<>>
    /\ recipients = <<>>
    /\ idx = 0
    /\ warnings = <<>>
    /\ phone = <<>>
    /\ topics = <<>>
    /\ error_count = 0
    /\ topic = None
    /\ topic_arn = None
    /\ events = <<>>
    /\ last = NoLast
    /\ clock = 0
    /\ headers = NoHeaders
    /\ result = FALSE

Next ==
    \/ ParseUrl
    \/ Construct
    \/ ClassifyStep
    \/ ClassifyEnd
    \/ NotifyStart
    \/ PhonePublish
    \/ PhonesDone
    \/ TopicCreate
    \/ TopicPublish
    \/ Return

Spec == Init /\ [][Next]_vars

-----------------------------------------------------------------------------
(* What a notify call has done so far, read from events *)

IsPost(e) == e.ev = "post"

IsPhoneCall(e) == IsPost(e) /\ e.field = "PhoneNumber"

IsCreate(e) == IsPost(e) /\ e.action = "CreateTopic"

IsTopicPublish(e) == IsPost(e) /\ e.field = "TopicArn"

PhoneCalls == SelectSeq(events, IsPhoneCall)

TopicCreates == SelectSeq(events, IsCreate)

Count(P(_)) == Cardinality({j \in 1..Len(events) : P(events[j])})

\* the transport call succeeded: status 200.  A call whose response made
\* _post raise is the last one, and `last` holds its status.
Succeeded(e) ==
    IF e.raised THEN ~last.exc /\ last.status_code = 200 ELSE e.ok

\* CreateTopic succeeded and its response held a non-empty topic ARN
Resolved(e) == IsCreate(e) /\ Succeeded(e) /\ e.arn # None /\ e.arn # <<>>

\* notify has ended: it returned, or an exception left it
Ended == pc \in {"returned", "raised"}

\* every phone's Publish succeeded; every topic's CreateTopic succeeded with
\* an ARN and was followed by its Publish, which succeeded
EveryRecipientSucceeded ==
    /\ Len(PhoneCalls) = Len(self_phone)
    /\ \A k \in 1..Len(PhoneCalls) : Succeeded(PhoneCalls[k])
    /\ Len(TopicCreates) = Len(self_topics)
    /\ \A j \in 1..Len(events) :
           IsCreate(events[j]) =>
               /\ Resolved(events[j])
               /\ j < Len(events)
               /\ IsTopicPublish(events[j + 1])
               /\ Succeeded(events[j + 1])

-----------------------------------------------------------------------------
(* C1 *)

\* C1: when notify has ended, it has returned True if and only if every
\* recipient fully succeeded (each phone's Publish succeeded; each topic's
\* CreateTopic succeeded with a non-empty ARN and its Publish succeeded).
C1_TrueIffEveryRecipientSucceeded ==
    Ended => ((pc = "returned" /\ result) <=> EveryRecipientSucceeded)

\* the same of the calls that return, with the result as error_count == 0
C1_WhenNotifyReturns ==
    pc = "returned" =>
        /\ result <=> EveryRecipientSucceeded
        /\ result <=> (error_count = 0)

-----------------------------------------------------------------------------
(* C2 *)

EveryRecipientAttempted ==
    /\ Len(PhoneCalls) = Len(self_phone)
    /\ Len(TopicCreates) = Len(self_topics)

\* the last transport call failed: a connection error or a status that is
\* not 2xx
LastCallFailed ==
    events # <<>> /\ (last.exc \/ last.status_code \notin 200..299)

\* C2: dispatch is best-effort: when notify has ended after a transport call
\* that failed (bad status or connection error), or has returned, every phone
\* has had its Publish call and every topic its CreateTopic call.
C2_FailureNeverStopsDispatch ==
    (pc = "returned" \/ (pc = "raised" /\ LastCallFailed))
        => EveryRecipientAttempted

\* the same of the calls that return
C2_WhenNotifyReturns == pc = "returned" => EveryRecipientAttempted

-----------------------------------------------------------------------------
(* C3 *)

\* a call that _post reported as failed, or a CreateTopic without an ARN
CountedFailure(e) ==
    /\ IsPost(e)
    /\ ~e.raised
    /\ (~e.ok \/ (IsCreate(e) /\ (e.arn = None \/ e.arn = <<>>)))

\* C3 as stated: a transport call that _post has handled is a failure exactly
\* when its status is not 2xx or a connection error occurred: every 2xx
\* status is a success.
C3_Every2xxSucceeds ==
    (events # <<>> /\ ~last.raised) =>
        (last.ok <=> (~last.exc /\ last.status_code \in 200..299))

\* C3 as amended: _post reports success only for status 200, and reports a
\* failure only for a connection error or a status other than 200 (another
\* 2xx included); exactly one of the two whenever it returns; and the failure
\* counter counts the failures _post reported and the topics without an ARN.
C3_Only200Succeeds ==
    events # <<>> =>
        /\ last.ok => (~last.exc /\ last.status_code = 200)
        /\ (~last.ok /\ ~last.raised) => (last.exc \/ last.status_code # 200)
        /\ ~last.raised => (last.ok <=> (~last.exc /\ last.status_code = 200))
        /\ error_count = Count(CountedFailure)

\* a 204 was counted as a failure
C3_Witness ==
    /\ events # <<>>
    /\ last.status_code = 204
    /\ ~last.exc /\ ~last.raised /\ ~last.ok
    /\ error_count = 1

-----------------------------------------------------------------------------
(* C4 *)

ValuesOf(calls) == [k \in 1..Len(calls) |-> calls[k].value]

\* C4: the phone calls so far address the first phones of self.phone in their
\* order, the CreateTopic calls the first topics of self.topics in their
\* order, duplicates included; no phone call follows a topic call, and every
\* phone has been called before the first topic call; a notify that returned
\* has gone through both lists.
C4_PhonesFirstInOrder ==
    /\ ValuesOf(PhoneCalls) = SubSeq(self_phone, 1, Len(PhoneCalls))
    /\ ValuesOf(TopicCreates) = SubSeq(self_topics, 1, Len(TopicCreates))
    /\ \A h, j \in 1..Len(events) :
           (h < j /\ (IsCreate(events[h]) \/ IsTopicPublish(events[h])))
               => ~IsPhoneCall(events[j])
    /\ (Len(TopicCreates) > 0) => Len(PhoneCalls) = Len(self_phone)
    /\ (pc = "returned") => EveryRecipientAttempted

\* two different phones and two different topics were gone through
C4_Witness ==
    /\ pc = "returned"
    /\ Len(self_phone) = 2 /\ self_phone[1] # self_phone[2]
    /\ Len(self_topics) = 2 /\ self_topics[1] # self_topics[2]
    /\ Len(PhoneCalls) = 2 /\ Len(TopicCreates) = 2

-----------------------------------------------------------------------------
(* C5 *)

\* what C5 counts as a failure: a CreateTopic that failed or gave no ARN,
\* and a Publish that _post reported as failed
ClaimedFailure(e) ==
    /\ IsPost(e)
    /\ \/ IsCreate(e) /\ ~Resolved(e)
       \/ ~IsCreate(e) /\ ~e.raised /\ ~e.ok

PublishFollowsItsCreate ==
    \A j \in 1..Len(events) :
        IsTopicPublish(events[j]) =>
            /\ j > 1
            /\ Resolved(events[j - 1])
            /\ events[j - 1].to = events[j].to
            /\ events[j].value = events[j - 1].arn

NoPublishWithoutArn ==
    \A j \in 1..Len(events) :
        (IsCreate(events[j]) /\ ~Resolved(events[j])) =>
            (j = Len(events) \/ ~IsTopicPublish(events[j + 1]))

\* C5: a Publish to a topic directly follows the CreateTopic of the same
\* topic, which succeeded with a non-empty ARN, and carries that ARN; a
\* CreateTopic that failed or gave no ARN is followed by no Publish, and the
\* failure counter holds one for each such topic (and one for each failed
\* Publish).
C5_PublishOnlyAfterResolvedCreate ==
    /\ PublishFollowsItsCreate
    /\ NoPublishWithoutArn
    /\ error_count = Count(ClaimedFailure)

\* the same as long as no response made _post raise
C5_WhenNoResponseRaises ==
    pc # "raised" => C5_PublishOnlyAfterResolvedCreate

-----------------------------------------------------------------------------
(* C6 *)

\* C6: when notify has ended, the transport calls it made are one for each
\* phone, one for each topic and one more for each topic that CreateTopic
\* resolved to an ARN.
C6_ExactCallCount ==
    Ended => Count(IsPost) = Len(self_phone) + Len(self_topics) + Count(Resolved)

\* the same of the calls that return; and never more calls than that
C6_WhenNotifyReturns ==
    /\ pc = "returned" =>
           Count(IsPost) = Len(self_phone) + Len(self_topics) + Count(Resolved)
    /\ Count(IsPost) <= Len(self_phone) + Len(self_topics) + Count(Resolved)

-----------------------------------------------------------------------------
(* C7 *)

IsThrottle(e) == e.ev = "throttle"

OnePhoneOneTopic == Len(self_phone) = 1 /\ Len(self_topics) = 1

\* C7 as stated: with one phone and one topic that CreateTopic resolves, a
\* notify that returned has made one throttle, between the Publish to the
\* phone and the CreateTopic, and none after the last call.
C7_OneThrottleBetweenPhoneAndTopic ==
    (pc = "returned" /\ OnePhoneOneTopic /\ Count(Resolved) = 1) =>
        /\ Count(IsThrottle) = 1
        /\ IsPhoneCall(events[1])
        /\ IsThrottle(events[2])
        /\ IsCreate(events[3])
        /\ ~IsThrottle(events[Len(events)])

\* C7 as amended: with one phone and one topic notify makes no throttle at
\* all, whatever the outcomes of its calls.
C7_NoThrottle ==
    OnePhoneOneTopic => Count(IsThrottle) = 0

\* the three calls of one phone and one resolved topic, and nothing else
C7_Witness ==
    /\ pc = "returned"
    /\ OnePhoneOneTopic
    /\ Len(events) = 3
    /\ IsPhoneCall(events[1]) /\ Resolved(events[2]) /\ IsTopicPublish(events[3])

-----------------------------------------------------------------------------
(* C8 *)

\* the recipients the loop of __init__ has gone through
Processed == SubSeq(recipients, 1, idx - 1)

DigitCount(t) == Len(SelectSeq(t, LAMBDA c : c \in Digits))

PhoneForm(t) == <<"+">> \o SelectSeq(t, LAMBDA c : c \in Digits)

\* the warnings that drop a recipient
DropWarnings == SelectSeq(warnings, LAMBDA w : w.what # "no valid recipient")

MapSeq(F(_), seq) == [k \in 1..Len(seq) |-> F(seq[k])]

\* the classification C8 states: a phone-shaped token out of the digit range
\* goes on to the topic test
ClaimedKind(t) ==
    IF IS_PHONE_NO(t) /\ DigitCount(t) \in 11..14 THEN "phone"
    ELSE IF IS_TOPIC(t) THEN "topic"
    ELSE "drop"

\* the classification as amended: a phone-shaped token out of the digit range
\* is dropped, and only a token that is not phone-shaped gets the topic test
AmendedKind(t) ==
    IF IS_PHONE_NO(t)
    THEN (IF DigitCount(t) \in 11..14 THEN "phone" ELSE "drop")
    ELSE IF IS_TOPIC(t) THEN "topic"
    ELSE "drop"

ClassifiedBy(Kind(_)) ==
    /\ self_phone =
           MapSeq(PhoneForm, SelectSeq(Processed, LAMBDA t : Kind(t) = "phone"))
    /\ self_topics =
           MapSeq(TopicName, SelectSeq(Processed, LAMBDA t : Kind(t) = "topic"))
    /\ MapSeq(LAMBDA w : w.recipient, DropWarnings) =
           SelectSeq(Processed, LAMBDA t : Kind(t) = "drop")

\* C8 as stated: a phone-shaped token is stored as a phone ('+' and its
\* digits) if and only if it has 11 to 14 digits; one with fewer or more is
\* stored as a topic when it has the topic shape and dropped otherwise.
C8_OutOfRangeTriedAsTopic ==
    pc = "classify" => ClassifiedBy(ClaimedKind)

\* C8 as amended: a phone-shaped token is stored as a phone ('+' and its
\* digits) if and only if it has 11 to 14 digits; one with fewer or more is
\* dropped with a warning, also when it has the topic shape; a token that is
\* not phone-shaped is stored as a topic when it has the topic shape and
\* dropped otherwise.
C8_OutOfRangeDropped ==
    pc = "classify" => ClassifiedBy(AmendedKind)

\* a token of 15 digits, phone-shaped and topic-shaped, was dropped
C8_Witness ==
    /\ pc = "classify"
    /\ idx = 2
    /\ IS_PHONE_NO(recipients[1]) /\ IS_TOPIC(recipients[1])
    /\ DigitCount(recipients[1]) = 15
    /\ self_phone = <<>> /\ self_topics = <<>>
    /\ Len(DropWarnings) = 1

-----------------------------------------------------------------------------
(* C9 *)

Kinds == {"phone", "topic", "drop"}

\* the items of seq that c gives the kind k, in the order of seq
RECURSIVE PickKind(_, _, _, _)
PickKind(seq, c, k, j) ==
    IF j > Len(c) THEN <<>>
    ELSE (IF c[j] = k THEN <<seq[j]>> ELSE <<>>) \o PickKind(seq, c, k, j + 1)

\* C9: the recipients gone through are split three ways, each in exactly one
\* part: the phone list holds the phone form of the first part, the topic
\* list the names of the second and the warnings the third, each in the order
\* of the input with its duplicates; the three sizes add up to the number of
\* recipients gone through.
C9_ClassificationPartitions ==
    pc = "classify" =>
        /\ \E c \in [1..(idx - 1) -> Kinds] :
               /\ self_phone = MapSeq(PhoneForm, PickKind(recipients, c, "phone", 1))
               /\ self_topics = MapSeq(TopicName, PickKind(recipients, c, "topic", 1))
               /\ MapSeq(LAMBDA w : w.recipient, DropWarnings)
                      = PickKind(recipients, c, "drop", 1)
        /\ Len(self_phone) + Len(self_topics) + Len(DropWarnings) = idx - 1

\* the same phone twice, then a dropped recipient: both copies are kept
C9_Witness ==
    /\ pc = "classify"
    /\ idx = 4
    /\ recipients[1] = recipients[2]
    /\ Len(self_phone) = 2 /\ self_phone[1] = self_phone[2]
    /\ Len(DropWarnings) = 1

-----------------------------------------------------------------------------
(* C10 *)

\* the region the notifier was given: the path entry of the URL, or the
\* argument of the constructor
RegionInput ==
    IF url.results THEN url.entries[FirstRegion(url.entries)] ELSE args.region_name

\* xx-yyyy-n in lower case, with nothing around it
LowerCaseRegion(s) == IS_REGION(s) /\ StripWs(s) = s /\ Lower(s) = s

\* the constructor went past its checks: a notifier exists
Constructed == pc = "classify"

\* the constructor raises TypeError when a key is missing or the region is
\* missing or has not the shape
InvalidArgumentsRaise ==
    /\ Constructed =>
           /\ ~Falsy(args.access_key_id)
           /\ ~Falsy(args.secret_access_key)
           /\ ~Falsy(args.region_name)
           /\ IS_REGION(args.region_name)
    /\ pc = "type_error" => aws_region_name = None

\* C10: a constructed notifier holds the lower-case form of the region it
\* was given, of the shape xx-yyyy-n, and its URL is made of it; a missing
\* key or region and a region of another shape raise at construction.
C10_RegionLowerCase ==
    /\ Constructed =>
           /\ aws_region_name = Lower(RegionInput)
           /\ LowerCaseRegion(aws_region_name)
           /\ notify_url = <<"https://sns.">> \o Lower(RegionInput)
                               \o <<".amazonaws.com/">>
    /\ InvalidArgumentsRaise

\* the same of the notifiers made from a URL, which parse_url lowers
C10_WhenMadeFromUrl ==
    /\ (Constructed /\ url.results) =>
           /\ aws_region_name = Lower(RegionInput)
           /\ LowerCaseRegion(aws_region_name)
    /\ InvalidArgumentsRaise

-----------------------------------------------------------------------------
(* C11 *)

\* the bodies requests.post may answer with, and no answer at all
ResponseBodies == Bodies \cup {BodyNone}

\* C11: aws_response_to_dict never raises, so that no response body aborts
\* a dispatch in progress: no call of _post is left by an exception and
\* notify is never left by one.
C11_ResponseNeverRaises ==
    /\ pc # "raised"
    /\ \A j \in 1..Len(events) : IsPost(events[j]) => ~events[j].raised

\* what holds of aws_response_to_dict: it returns for every body but the
\* XML with a recognized leaf that has no text, the mapping it returns has
\* the keys type and request_id, and it is the default mapping when there
\* is no body or the body is no XML
C11_WhenNoLeafIsEmpty ==
    /\ \A b \in ResponseBodies :
           ~ResponseRaises(b) =>
               /\ {"type", "request_id"} \subseteq DOMAIN AwsResponseToDict(b)
               /\ b.kind # "xml" => AwsResponseToDict(b) = DefaultResponse
    /\ \A b \in ResponseBodies : ResponseRaises(b) <=> b = BodyEmptyLeaf
    /\ pc = "raised" => (~last.exc /\ last.raised)

-----------------------------------------------------------------------------
(* C12 *)

\* events[j] is the CreateTopic of a topic that is not the first one
NextTopicCreate(j) ==
    /\ IsCreate(events[j])
    /\ \E i \in 1..(j - 1) : IsCreate(events[i])

\* C12: between two consecutive topics there is a throttle before the
\* CreateTopic of the later one, whatever became of the earlier one.
C12_ThrottleBeforeEveryNextTopic ==
    \A j \in 1..Len(events) : NextTopicCreate(j) => IsThrottle(events[j - 1])

\* what holds instead: the throttle is there when the earlier topic got as
\* far as its Publish, and is not when its CreateTopic failed or gave no ARN
C12_WhenEarlierTopicPublished ==
    \A j \in 1..Len(events) :
        NextTopicCreate(j) =>
            \/ /\ IsThrottle(events[j - 1])
               /\ IsTopicPublish(events[j - 2])
            \/ /\ IsCreate(events[j - 1])
               /\ ~Resolved(events[j - 1])

-----------------------------------------------------------------------------
(* C13 *)

\* events[j] is a throttle of the phone loop
IsPhoneThrottle(j) ==
    IsThrottle(events[j]) /\ j > 1 /\ IsPhoneCall(events[j - 1])

PhoneThrottles == Cardinality({j \in 1..Len(events) : IsPhoneThrottle(j)})

Max(a, b) == IF a >= b THEN a ELSE b

\* every throttle of the phone loop is between two Publish calls to phones,
\* and no throttle is the last thing a notify call did
ThrottlesOnlyBetween ==
    /\ \A j \in 1..Len(events) :
           IsPhoneThrottle(j) => (j < Len(events) /\ IsPhoneCall(events[j + 1]))
    /\ events # <<>> => ~IsThrottle(events[Len(events)])

\* C13: a notify call that has ended has made max(0, n-1) throttles in the
\* phone loop for its n phones, each one between two consecutive Publish
\* calls to phones, and no throttle after its last call.
C13_PhoneThrottleCount ==
    Ended =>
        /\ PhoneThrottles = Max(0, Len(self_phone) - 1)
        /\ ThrottlesOnlyBetween

\* the same of the calls whose phone loop came to its end
C13_WhenPhoneLoopEnds ==
    /\ (pc \in {"topics", "publish", "returned"}
            \/ (pc = "raised" /\ Len(TopicCreates) > 0)) =>
           PhoneThrottles = Max(0, Len(self_phone) - 1)
    /\ Ended => ThrottlesOnlyBetween

-----------------------------------------------------------------------------
(* C14 *)

\* C14: the headers of the last request hold one reference time, the
\* instant this request was prepared at and no earlier one: the X-Amz-Date
\* header is that instant, and the date of the credential scope and the
\* date the first signing key is made of are its day.
C14_OneReferencePerRequest ==
    /\ headers.made <=> Count(IsPost) > 0
    /\ headers.made =>
           /\ headers.reference = clock
           /\ headers.x_amz_date = AmzDate(clock)
           /\ headers.scope_date = DateStamp(clock)
           /\ headers.key_date = DateStamp(clock)
           /\ headers.x_amz_date[1] = headers.scope_date

\* the Publish to a topic, the second request of its notify call, prepared
\* at the last instant, on the day after the program started
C14_Witness ==
    /\ pc = "returned"
    /\ Len(events) = 2
    /\ IsCreate(events[1]) /\ IsTopicPublish(events[2])
    /\ headers.made
    /\ headers.reference = MaxClock
    /\ headers.scope_date > DateStamp(0)

-----------------------------------------------------------------------------
(* C15 *)

\* a notify call is under way or has ended
InNotify == pc \in {"phones", "topics", "publish", "returned", "raised"}

\* the recipients still queued are those of the stored lists that have not
\* been sent to
QueuesAreTheRestOfTheLists ==
    InNotify =>
        /\ ValuesOf(PhoneCalls) \o phone = self_phone
        /\ ValuesOf(TopicCreates) \o topics = self_topics

\* a step of a constructed notifier keeps self.phone and self.topics, and a
\* notify call starts with the whole of both as its queues
ListsKept ==
    /\ (pc = "ready" \/ InNotify) =>
           (self_phone' = self_phone /\ self_topics' = self_topics)
    /\ (pc \in {"ready", "returned", "raised"} /\ pc' = "phones") =>
           (phone' = self_phone /\ topics' = self_topics)

\* C15: notify leaves self.phone and self.topics as the constructor made
\* them, so every notify call, the first or one that follows calls that
\* returned True, returned False or raised, starts with the same recipients
\* in the same order and sends to them from the front.
C15_StoredListsUnchanged ==
    []QueuesAreTheRestOfTheLists /\ [][ListsKept]_vars

\* a later notify call starts (requests were made before it: the clock has
\* gone on) with both phones and the topic of the notifier queued
C15_Witness ==
    /\ pc = "phones"
    /\ events = <<>>
    /\ clock > 0
    /\ Len(self_phone) = 2 /\ Len(self_topics) > 0
    /\ phone = self_phone /\ topics = self_topics

====
